---- MODULE Spec2Model ----
(***************************************************************************)
(* Model of the XML compare core: the tree builder (core/xmlParser.js,     *)
(* the version taking xpathSettings) and the tree comparator               *)
(* (core/xmlComparer.js).                                                  *)
(*                                                                         *)
(* Strings are sequences of one-character strings, so that path            *)
(* formatting (`${parentPath}/${step}`), trimming and parseInt are         *)
(* computed as the code computes them.  A DOM element is a record          *)
(* [nodeType |-> 1, tagName, attributes, childNodes]; a text node is       *)
(* [nodeType |-> 3, textContent].  A JS Set / the key order of a JS Map    *)
(* is a duplicate-free sequence in insertion order.                        *)
(***************************************************************************)
EXTENDS Integers, Sequences, FiniteSets, TLC

VARIABLES
    leftXml,        \* the left document, as the DOM the XML parser yields for it
    rightXml,       \* the right document
    xpathSettings,  \* [elementsArray, indexAttribute, leafOmit]
    leftTree,       \* parseXml(leftXml, xpathSettings), Null before it ran
    rightTree,
    diffResults,    \* compareXml(leftTree, rightTree), Null before it ran
    status,         \* the last getDiffStatus call: [xpath, side, result]
    xmlString,      \* the value handed to parseXml / safeParseXml: [typeof, value]
    parserDiagnostic, \* the text the host's DOMParser reports for malformed input
    parseOutcome,   \* the last parseXml call: [threw, message, tree, parserCalls]
    parseResult,    \* what the last safeParseXml call returned, Null before it ran
    lookup,         \* the last findNodeByXPath call: [xpath, called, node]
    leftError,      \* the store's leftError: a message, NullString for null
    rightError,
    isComparing,    \* the store's isComparing flag
    now,            \* what Date.now() returns
    listeners,      \* the request ids of the handleMessage listeners on the worker
    workerInbox,    \* the messages posted to the worker and not yet handled
    storeInbox      \* the messages the worker posted and not yet delivered

vars == <<leftXml, rightXml, xpathSettings, leftTree, rightTree, diffResults, status,
          xmlString, parserDiagnostic, parseOutcome, parseResult, lookup,
          leftError, rightError, isComparing, now, listeners, workerInbox, storeInbox>>

\* the variables of the comparison, and those of the parsing entry points
compareVars == <<leftXml, rightXml, leftTree, rightTree, diffResults, status>>
parseVars == <<xmlString, parserDiagnostic, parseOutcome, parseResult, lookup>>
storeVars == <<leftError, rightError, isComparing, now, listeners, workerInbox, storeInbox>>

\* JS null where an object (a tree, a report) is expected
Null == [null |-> TRUE]

\* JS null and undefined where a string is expected: one-element sequences
\* whose element is no character, so that no string equals them
NullString == <<"null">>
Undefined == <<"undefined">>

\* JS truthiness of a string-or-null value
Truthy(s) == s # NullString /\ s # Undefined /\ s # <<>>

----------------------------------------------------------------------------
(* Strings                                                                 *)

Range(s) == {s[i] : i \in 1..Len(s)}

Whitespace == {" ", "\t", "\n", "\r"}

DigitChars == <<"0", "1", "2", "3", "4", "5", "6", "7", "8", "9">>

\* String.prototype.trim
RECURSIVE TrimStart(_)
TrimStart(s) ==
    IF s # <<>> /\ Head(s) \in Whitespace THEN TrimStart(Tail(s)) ELSE s

RECURSIVE TrimEnd(_)
TrimEnd(s) ==
    IF s # <<>> /\ s[Len(s)] \in Whitespace
    THEN TrimEnd(SubSeq(s, 1, Len(s) - 1))
    ELSE s

Trim(s) == TrimEnd(TrimStart(s))

\* String.prototype.toLowerCase on the letters the model uses
LowerChar(c) ==
    CASE c = "A" -> "a"
      [] c = "B" -> "b"
      [] c = "R" -> "r"
      [] OTHER -> c

ToLowerCase(s) == [i \in 1..Len(s) |-> LowerChar(s[i])]

\* `${index}` : decimal rendering of a non-negative integer
RECURSIVE NumberToString(_)
NumberToString(n) ==
    IF n < 10
    THEN <<DigitChars[n + 1]>>
    ELSE NumberToString(n \div 10) \o <<DigitChars[(n % 10) + 1]>>

DigitValue(c) == CHOOSE d \in 0..9 : DigitChars[d + 1] = c

IsDigit(c) == \E d \in 1..10 : DigitChars[d] = c

\* the value of the longest prefix of digits of s, given the value so far
RECURSIVE DigitPrefixValue(_, _)
DigitPrefixValue(s, acc) ==
    IF s # <<>> /\ IsDigit(Head(s))
    THEN DigitPrefixValue(Tail(s), acc * 10 + DigitValue(Head(s)))
    ELSE acc

\* parseInt(s, 10): leading whitespace skipped, optional sign, then the
\* longest prefix of digits; NaN when there is no digit there
ParseInt(s) ==
    LET t == TrimStart(s)
        signed == t # <<>> /\ Head(t) \in {"+", "-"}
        body == IF signed THEN Tail(t) ELSE t
        mag == DigitPrefixValue(body, 0)
    IN  IF body = <<>> \/ ~IsDigit(Head(body))
        THEN [isNaN |-> TRUE, value |-> 0]
        ELSE [isNaN |-> FALSE,
              value |-> IF signed /\ Head(t) = "-" THEN 0 - mag ELSE mag]

\* obj[key] on a plain JS object holding string values
Get(obj, key) == IF key \in DOMAIN obj THEN obj[key] ELSE Undefined

\* Set.prototype.has / Array.prototype.includes
Has(seq, x) == \E i \in 1..Len(seq) : seq[i] = x

\* Set.prototype.add : insertion order, no duplicates
SetAdd(seq, x) == IF Has(seq, x) THEN seq ELSE Append(seq, x)

----------------------------------------------------------------------------
(* Tree builder (xmlParser.js)                                             *)

ELEMENT_NODE == 1
TEXT_NODE == 3

\* element.children : the child elements, in document order
ElementChildren(element) ==
    SelectSeq(element.childNodes, LAMBDA n : n.nodeType = ELEMENT_NODE)

\* Array.prototype.indexOf, 0-based, -1 when absent
IndexOf(seq, x) ==
    IF Has(seq, x) THEN (CHOOSE i \in 1..Len(seq) : seq[i] = x /\ \A j \in 1..(i - 1) : seq[j] # x) - 1
    ELSE 0 - 1

\* The same-tag siblings of the child at position i of parent, as positions
\* in parent.children (elements are compared by identity in the code); the
\* root element has no parent and is its own only sibling.
findSameSiblings(parent, i, tagName) ==
    IF parent = Null
    THEN <<i>>
    ELSE LET kids == ElementChildren(parent)
         IN  SelectSeq([j \in 1..Len(kids) |-> j], LAMBDA j : kids[j].tagName = tagName)

calculateIndex(element, settings, siblings, i) ==
    LET indexAttribute == settings.indexAttribute
        byPosition == IndexOf(siblings, i) + 1
    IN  IF Truthy(indexAttribute) /\ indexAttribute \in DOMAIN element.attributes
        THEN LET val == ParseInt(element.attributes[indexAttribute])
             IN  IF ~val.isNaN /\ val.value >= 1 THEN val.value ELSE byPosition
        ELSE byPosition

\* calculateXPath appending [1] in the branch the code leaves empty
calculateXPathBracketOne(element, parent, i, parentPath, settings, isLeaf) ==
    LET tagName == element.tagName
        siblings == findSameSiblings(parent, i, tagName)
        index == calculateIndex(element, settings, siblings, i)
        step == IF index > 1
                THEN tagName \o <<"[">> \o NumberToString(index) \o <<"]">>
                ELSE IF \/ Has(settings.elementsArray, ToLowerCase(tagName))
                        \/ (settings.leafOmit /\ isLeaf)
                        \/ Len(siblings) = 1
                     THEN tagName
                     ELSE tagName \o <<"[", "1", "]">>
    IN  parentPath \o <<"/">> \o step

\* calculateXPath starting the path of a leaf element anew instead of
\* extending the parent's path
calculateXPathLeafRooted(element, parent, i, parentPath, settings, isLeaf) ==
    LET tagName == element.tagName
        siblings == findSameSiblings(parent, i, tagName)
        index == calculateIndex(element, settings, siblings, i)
        step == IF index > 1
                THEN tagName \o <<"[">> \o NumberToString(index) \o <<"]">>
                ELSE tagName
    IN  (IF isLeaf THEN <<>> ELSE parentPath) \o <<"/">> \o step

\* calculateXPath appending [1] to an element with index 1 that has
\* same-tag siblings, unless leafOmit applies or elementsArray lists the tag
calculateXPathOptionalOne(element, parent, i, parentPath, settings, isLeaf) ==
    LET tagName == element.tagName
        siblings == findSameSiblings(parent, i, tagName)
        index == calculateIndex(element, settings, siblings, i)
        step == IF index > 1
                THEN tagName \o <<"[">> \o NumberToString(index) \o <<"]">>
                ELSE IF \/ Has(settings.elementsArray, ToLowerCase(tagName))
                        \/ (settings.leafOmit /\ isLeaf)
                     THEN tagName
                     ELSE tagName \o <<"[", "1", "]">>
    IN  parentPath \o <<"/">> \o step

calculateXPath(element, parent, i, parentPath, settings, isLeaf) ==
    LET tagName == element.tagName
        tagNameLower == ToLowerCase(tagName)
        siblings == findSameSiblings(parent, i, tagName)
        index == calculateIndex(element, settings, siblings, i)
        isInElementsArray == Has(settings.elementsArray, tagNameLower)
        shouldOmitForLeaf == settings.leafOmit /\ isLeaf
        step == IF index > 1
                THEN tagName \o <<"[">> \o NumberToString(index) \o <<"]">>
                ELSE IF isInElementsArray \/ shouldOmitForLeaf \/ Len(siblings) = 1
                     THEN tagName
                     ELSE tagName
    IN  parentPath \o <<"/">> \o step

extractAttributes(element) ==
    [name \in DOMAIN element.attributes |-> element.attributes[name]]

\* extractDirectTextContent descending into the child elements, as
\* element.textContent does
RECURSIVE extractDirectTextContentDeep(_)
extractDirectTextContentDeep(childNodes) ==
    IF childNodes = <<>>
    THEN <<>>
    ELSE LET child == Head(childNodes)
             text == IF child.nodeType = TEXT_NODE
                     THEN Trim(child.textContent)
                     ELSE extractDirectTextContentDeep(child.childNodes)
         IN  text \o extractDirectTextContentDeep(Tail(childNodes))

RECURSIVE extractDirectTextContent(_)
extractDirectTextContent(childNodes) ==
    IF childNodes = <<>>
    THEN <<>>
    ELSE LET child == Head(childNodes)
             text == IF child.nodeType = TEXT_NODE THEN Trim(child.textContent) ELSE <<>>
         IN  text \o extractDirectTextContent(Tail(childNodes))

identifyingAttributes == << <<"i", "d">>, <<"n", "a", "m", "e">>, <<"k", "e", "y">> >>

generateComparisonKey(tagName, attributes) ==
    LET found == SelectSeq(identifyingAttributes, LAMBDA a : Truthy(Get(attributes, a)))
    IN  IF found = <<>>
        THEN tagName
        ELSE tagName \o <<"[", "@">> \o Head(found) \o <<"=", "\"">>
                     \o attributes[Head(found)] \o <<"\"", "]">>

RECURSIVE buildTreeFromElement(_, _, _, _, _)
buildTreeFromElement(element, parent, i, parentPath, settings) ==
    LET tagName == element.tagName
        kids == ElementChildren(element)
        isLeaf == kids = <<>>
        xpath == calculateXPath(element, parent, i, parentPath, settings, isLeaf)
        siblings == findSameSiblings(parent, i, tagName)
        attributes == extractAttributes(element)
    IN  [tagName |-> tagName,
         xpath |-> xpath,
         attributes |-> attributes,
         textContent |-> extractDirectTextContent(element.childNodes),
         children |-> [j \in 1..Len(kids) |->
                          buildTreeFromElement(kids[j], element, j, xpath, settings)],
         key |-> generateComparisonKey(tagName, attributes),
         siblingIndex |-> calculateIndex(element, settings, siblings, i),
         siblingTotal |-> Len(siblings)]

\* parseXml on a well-formed document whose document element is `document`
parseXml(document, settings) ==
    buildTreeFromElement(document, Null, 1, <<>>, settings)

\* traverseAndCollect: the nodes in the order the callback sees them
RECURSIVE traverseAndCollect(_)
RECURSIVE traverseAll(_)
traverseAndCollect(node) == <<node>> \o traverseAll(node.children)
traverseAll(nodes) ==
    IF nodes = <<>> THEN <<>>
    ELSE traverseAndCollect(Head(nodes)) \o traverseAll(Tail(nodes))

\* map.set keeping the value a key already has
MapSetKeepFirst(map, key, value) ==
    [k \in (DOMAIN map) \cup {key} |-> IF k \in DOMAIN map THEN map[k] ELSE value]

\* map.set(key, value) on a Map held as a function
MapSet(map, key, value) ==
    [k \in (DOMAIN map) \cup {key} |-> IF k = key THEN value ELSE map[k]]

EmptyMap == [k \in {} |-> Null]

RECURSIVE FoldMapSet(_, _)
FoldMapSet(map, nodes) ==
    IF nodes = <<>> THEN map
    ELSE FoldMapSet(MapSet(map, Head(nodes).xpath, Head(nodes)), Tail(nodes))

flattenTree(tree) == FoldMapSet(EmptyMap, traverseAndCollect(tree))

RECURSIVE FoldSetAdd(_, _)
FoldSetAdd(set, nodes) ==
    IF nodes = <<>> THEN set
    ELSE FoldSetAdd(SetAdd(set, Head(nodes).xpath), Tail(nodes))

getAllXPaths(tree) == FoldSetAdd(<<>>, traverseAndCollect(tree))

countNodes(tree) == Len(traverseAndCollect(tree))

\* findNodeByXPath falling back to the root instead of null
findNodeByXPathRootFallback(tree, xpath) ==
    LET map == flattenTree(tree)
    IN  IF xpath \in DOMAIN map THEN map[xpath] ELSE tree

findNodeByXPath(tree, xpath) ==
    LET map == flattenTree(tree)
    IN  IF xpath \in DOMAIN map THEN map[xpath] ELSE Null

----------------------------------------------------------------------------
(* Tree comparator (xmlComparer.js)                                        *)

DiffStatus == [MATCHED |-> "matched", EXTRA |-> "extra",
               DIFFERENT |-> "different", NEUTRAL |-> "neutral"]

\* findUniqueElements with the negation of the membership test lost
RECURSIVE findUniqueElementsNegationLost(_, _)
findUniqueElementsNegationLost(sourceSet, targetSet) ==
    IF sourceSet = <<>> THEN <<>>
    ELSE LET path == Head(sourceSet)
             rest == findUniqueElementsNegationLost(Tail(sourceSet), targetSet)
         IN  IF Has(targetSet, path) THEN <<path>> \o rest ELSE rest

\* source - target, in the iteration order of source
RECURSIVE findUniqueElements(_, _)
findUniqueElements(sourceSet, targetSet) ==
    IF sourceSet = <<>> THEN <<>>
    ELSE LET path == Head(sourceSet)
             rest == findUniqueElements(Tail(sourceSet), targetSet)
         IN  IF ~Has(targetSet, path) THEN <<path>> \o rest ELSE rest

\* isTextContentEqual accepting a right text that starts with the left one
isTextContentEqualStartsWith(leftText, rightText) ==
    /\ Len(leftText) <= Len(rightText)
    /\ SubSeq(rightText, 1, Len(leftText)) = leftText

isTextContentEqual(leftText, rightText) == leftText = rightText

\* areAttributesEqual without the comparison of the numbers of attributes
areAttributesEqualNoCount(leftAttrs, rightAttrs) ==
    \A key \in DOMAIN leftAttrs : Get(leftAttrs, key) = Get(rightAttrs, key)

areAttributesEqual(leftAttrs, rightAttrs) ==
    LET leftKeys == DOMAIN leftAttrs
        rightKeys == DOMAIN rightAttrs
    IN  IF Cardinality(leftKeys) # Cardinality(rightKeys)
        THEN FALSE
        ELSE \A key \in leftKeys : Get(leftAttrs, key) = Get(rightAttrs, key)

\* areNodesIdentical comparing the numbers of children as well
areNodesIdenticalWithChildren(leftNode, rightNode) ==
    /\ isTextContentEqual(leftNode.textContent, rightNode.textContent)
    /\ areAttributesEqual(leftNode.attributes, rightNode.attributes)
    /\ Len(leftNode.children) = Len(rightNode.children)

areNodesIdentical(leftNode, rightNode) ==
    IF ~isTextContentEqual(leftNode.textContent, rightNode.textContent)
    THEN FALSE
    ELSE IF ~areAttributesEqual(leftNode.attributes, rightNode.attributes)
         THEN FALSE
         ELSE TRUE

\* the loop of compareCommonElements with the else lost: a path whose nodes
\* are identical is added to different as well
RECURSIVE compareCommonLoopElseLost(_, _, _, _, _)
compareCommonLoopElseLost(todo, rightPaths, leftMap, rightMap, acc) ==
    IF todo = <<>> THEN acc
    ELSE LET xpath == Head(todo)
         IN  IF ~Has(rightPaths, xpath)
             THEN compareCommonLoopElseLost(Tail(todo), rightPaths, leftMap, rightMap, acc)
             ELSE IF areNodesIdentical(leftMap[xpath], rightMap[xpath])
                  THEN compareCommonLoopElseLost(Tail(todo), rightPaths, leftMap, rightMap,
                           [acc EXCEPT !.matched = SetAdd(@, xpath),
                                       !.different = SetAdd(@, xpath)])
                  ELSE compareCommonLoopElseLost(Tail(todo), rightPaths, leftMap, rightMap,
                           [acc EXCEPT !.different = SetAdd(@, xpath)])

\* the loop of compareCommonElements over the paths still to visit, given
\* the two sets built so far
RECURSIVE compareCommonLoop(_, _, _, _, _)
compareCommonLoop(todo, rightPaths, leftMap, rightMap, acc) ==
    IF todo = <<>> THEN acc
    ELSE LET xpath == Head(todo)
         IN  IF ~Has(rightPaths, xpath)
             THEN compareCommonLoop(Tail(todo), rightPaths, leftMap, rightMap, acc)
             ELSE IF areNodesIdentical(leftMap[xpath], rightMap[xpath])
                  THEN compareCommonLoop(Tail(todo), rightPaths, leftMap, rightMap,
                           [acc EXCEPT !.matched = SetAdd(@, xpath)])
                  ELSE compareCommonLoop(Tail(todo), rightPaths, leftMap, rightMap,
                           [acc EXCEPT !.different = SetAdd(@, xpath)])

compareCommonElements(leftPaths, rightPaths, leftMap, rightMap) ==
    compareCommonLoop(leftPaths, rightPaths, leftMap, rightMap,
                      [matched |-> <<>>, different |-> <<>>])

\* calculateStats with the two only-counts taken from the wrong lists
calculateStatsOnlySwapped(leftPaths, rightPaths, matched, leftOnly, rightOnly, different) ==
    [totalLeft |-> Len(leftPaths),
     totalRight |-> Len(rightPaths),
     matched |-> Len(matched),
     leftOnly |-> Len(rightOnly),
     rightOnly |-> Len(leftOnly),
     different |-> Len(different)]

calculateStats(leftPaths, rightPaths, matched, leftOnly, rightOnly, different) ==
    [totalLeft |-> Len(leftPaths),
     totalRight |-> Len(rightPaths),
     matched |-> Len(matched),
     leftOnly |-> Len(leftOnly),
     rightOnly |-> Len(rightOnly),
     different |-> Len(different)]

compareXml(lTree, rTree) ==
    LET leftPaths == getAllXPaths(lTree)
        rightPaths == getAllXPaths(rTree)
        leftMap == flattenTree(lTree)
        rightMap == flattenTree(rTree)
        leftOnly == findUniqueElements(leftPaths, rightPaths)
        rightOnly == findUniqueElements(rightPaths, leftPaths)
        common == compareCommonElements(leftPaths, rightPaths, leftMap, rightMap)
    IN  [leftOnly |-> leftOnly,
         rightOnly |-> rightOnly,
         different |-> common.different,
         matched |-> common.matched,
         stats |-> calculateStats(leftPaths, rightPaths, common.matched,
                                  leftOnly, rightOnly, common.different)]

isInArray(value, array) == Has(array, value)

\* getDiffStatus looking at different before matched
getDiffStatusDifferentFirst(xpath, results, side) ==
    IF results = Null THEN DiffStatus.NEUTRAL
    ELSE IF isInArray(xpath, results.different) THEN DiffStatus.DIFFERENT
    ELSE IF isInArray(xpath, results.matched) THEN DiffStatus.MATCHED
    ELSE IF side = "left" /\ isInArray(xpath, results.leftOnly) THEN DiffStatus.EXTRA
    ELSE IF side = "right" /\ isInArray(xpath, results.rightOnly) THEN DiffStatus.EXTRA
    ELSE DiffStatus.NEUTRAL

getDiffStatus(xpath, results, side) ==
    IF results = Null THEN DiffStatus.NEUTRAL
    ELSE IF isInArray(xpath, results.matched) THEN DiffStatus.MATCHED
    ELSE IF isInArray(xpath, results.different) THEN DiffStatus.DIFFERENT
    ELSE IF side = "left" /\ isInArray(xpath, results.leftOnly) THEN DiffStatus.EXTRA
    ELSE IF side = "right" /\ isInArray(xpath, results.rightOnly) THEN DiffStatus.EXTRA
    ELSE DiffStatus.NEUTRAL

\* areTreesIdentical without the test of the different list
areTreesIdenticalIgnoringDifferent(results) ==
    /\ Len(results.leftOnly) = 0
    /\ Len(results.rightOnly) = 0

areTreesIdentical(results) ==
    /\ Len(results.leftOnly) = 0
    /\ Len(results.rightOnly) = 0
    /\ Len(results.different) = 0

----------------------------------------------------------------------------
(* Documents and settings the model draws its inputs from                  *)

\* the most child elements of the root of a document, and of a root that
\* has text of its own
MaxChildren == 2
MaxTextChildren == 1

TextNode(text) == [nodeType |-> TEXT_NODE, textContent |-> text]

Element(tagName, attributes, childNodes) ==
    [nodeType |-> ELEMENT_NODE, tagName |-> tagName,
     attributes |-> attributes, childNodes |-> childNodes]

NoAttributes == [name \in {} |-> <<>>]

SeqsUpTo(S, n) == UNION {[1..k -> S] : k \in 0..n}

\* <a/>, <a n="2"/>, <B/>, <a n="1"><B/></a>
ChildElements ==
    { Element(<<"a">>, NoAttributes, <<>>),
      Element(<<"a">>, <<"n">> :> <<"2">>, <<>>),
      Element(<<"B">>, NoAttributes, <<>>),
      Element(<<"a">>, <<"n">> :> <<"1">>,
              <<Element(<<"B">>, NoAttributes, <<>>)>>) }

\* the text directly under the root element of a mixed-content document
RootText == <<TextNode(<<" ", "x">>)>>

\* <r>child*</r> with at most MaxChildren children, and <r> x child*</r>
\* with at most MaxTextChildren children
Documents ==
    { Element(<<"r">>, NoAttributes, kids) :
        kids \in SeqsUpTo(ChildElements, MaxChildren) }
    \cup
    { Element(<<"r">>, NoAttributes, RootText \o kids) :
        kids \in SeqsUpTo(ChildElements, MaxTextChildren) }

defaultXpathSettings ==
    [elementsArray |-> <<>>, indexAttribute |-> NullString, leafOmit |-> TRUE]

SettingsValues ==
    [elementsArray : {<<>>, << <<"b">> >>},
     indexAttribute : {NullString, <<"n">>},
     leafOmit : BOOLEAN]

NoStatus == [xpath |-> <<>>, side |-> "none", result |-> "none"]

----------------------------------------------------------------------------
(* The parsing entry points (xmlParser.js) and the host's DOMParser        *)

\* a JS string as the value handed to parseXml
JsString(chars) == [typeof |-> "string", value |-> chars]

\* the values of the tests that are no strings: null, undefined, 123, {}
NonStrings ==
    { [typeof |-> "object", value |-> <<"n", "u", "l", "l">>],
      [typeof |-> "undefined", value |-> <<"u", "n", "d", "e", "f">>],
      [typeof |-> "number", value |-> <<"1", "2", "3">>],
      [typeof |-> "object", value |-> <<"{", "}">>] }

\* 'XML input must be a string'
MustBeStringMessage ==
    <<"X", "M", "L", " ", "i", "n", "p", "u", "t", " ", "m", "u", "s", "t",
      " ", "b", "e", " ", "a", " ", "s", "t", "r", "i", "n", "g">>

\* 'XML input cannot be empty'
CannotBeEmptyMessage ==
    <<"X", "M", "L", " ", "i", "n", "p", "u", "t", " ", "c", "a", "n", "n",
      "o", "t", " ", "b", "e", " ", "e", "m", "p", "t", "y">>

\* 'Invalid XML: '
InvalidXmlPrefix ==
    <<"I", "n", "v", "a", "l", "i", "d", " ", "X", "M", "L", ":", " ">>

\* 'Unknown parsing error'
UnknownParsingError ==
    <<"U", "n", "k", "n", "o", "w", "n", " ", "p", "a", "r", "s", "i", "n",
      "g", " ", "e", "r", "r", "o", "r">>

\* '...'
Ellipsis == <<".", ".", ".">>

\* the length extractErrorMessage cuts the diagnostic at
ErrorMessageLimit == 200

\* the tag of the element a DOMParser reports a syntax error with
parsererror ==
    <<"p", "a", "r", "s", "e", "r", "e", "r", "r", "o", "r">>

\* validateXmlInput testing the length of the string without trimming it
validateXmlInputNoTrim(input) ==
    IF input.typeof # "string"
    THEN MustBeStringMessage
    ELSE IF Len(input.value) = 0
         THEN CannotBeEmptyMessage
         ELSE NullString

\* validateXmlInput: the message of the Error it throws, NullString when it
\* returns
validateXmlInput(input) ==
    IF input.typeof # "string"
    THEN MustBeStringMessage
    ELSE IF Len(Trim(input.value)) = 0
         THEN CannotBeEmptyMessage
         ELSE NullString

\* element.textContent of the DOM: the text of all descendant text nodes
RECURSIVE DomTextContent(_)
RECURSIVE DomTextContentAll(_)
DomTextContent(node) ==
    IF node.nodeType = TEXT_NODE
    THEN node.textContent
    ELSE DomTextContentAll(node.childNodes)
DomTextContentAll(nodes) ==
    IF nodes = <<>> THEN <<>>
    ELSE DomTextContent(Head(nodes)) \o DomTextContentAll(Tail(nodes))

\* the elements of a document in document order
RECURSIVE ElementsInOrder(_)
RECURSIVE ElementsInOrderAll(_)
ElementsInOrder(element) ==
    <<element>> \o ElementsInOrderAll(ElementChildren(element))
ElementsInOrderAll(elements) ==
    IF elements = <<>> THEN <<>>
    ELSE ElementsInOrder(Head(elements)) \o ElementsInOrderAll(Tail(elements))

\* xmlDoc.querySelector(tag): the first element of the document with the
\* tag, Null when there is none
querySelector(xmlDoc, tag) ==
    LET hits == SelectSeq(ElementsInOrder(xmlDoc.documentElement),
                          LAMBDA e : e.tagName = tag)
    IN  IF hits = <<>> THEN Null ELSE Head(hits)

\* message.replace(/\s+/g, ' '): every run of whitespace becomes one space.
\* The characters kept are those that are no whitespace and the first of
\* each run of whitespace.
CollapseWhitespace(s) ==
    LET kept == SelectSeq([i \in 1..Len(s) |-> i],
                          LAMBDA i : \/ s[i] \notin Whitespace
                                     \/ i = 1
                                     \/ s[i - 1] \notin Whitespace)
    IN  [k \in 1..Len(kept) |->
            IF s[kept[k]] \in Whitespace THEN " " ELSE s[kept[k]]]

\* extractErrorMessage cutting the message so that it is ErrorMessageLimit
\* characters long with the ellipsis
extractErrorMessageCutShort(parseError) ==
    LET textContent == DomTextContent(parseError)
        message == IF textContent = <<>> THEN UnknownParsingError ELSE textContent
        cleaned == Trim(CollapseWhitespace(message))
    IN  IF Len(cleaned) > ErrorMessageLimit
        THEN SubSeq(cleaned, 1, ErrorMessageLimit - Len(Ellipsis)) \o Ellipsis
        ELSE cleaned

extractErrorMessage(parseError) ==
    LET textContent == DomTextContent(parseError)
        message == IF textContent = <<>> THEN UnknownParsingError ELSE textContent
        cleaned == Trim(CollapseWhitespace(message))
    IN  IF Len(cleaned) > ErrorMessageLimit
        THEN SubSeq(cleaned, 1, ErrorMessageLimit) \o Ellipsis
        ELSE cleaned

\* checkForParseErrors: the message of the Error it throws, NullString when
\* it returns
checkForParseErrors(xmlDoc) ==
    LET parseError == querySelector(xmlDoc, parsererror)
    IN  IF parseError # Null
        THEN InvalidXmlPrefix \o extractErrorMessage(parseError)
        ELSE NullString

\* The text of a document.  Attributes are written in the order of
\* AttributeOrder; an element is written with a start and an end tag.
AttributeOrder ==
    << <<"i", "d">>, <<"n", "a", "m", "e">>, <<"k", "e", "y">>, <<"n">> >>

RECURSIVE SerializeAttributes(_, _)
SerializeAttributes(names, attributes) ==
    IF names = <<>> THEN <<>>
    ELSE (IF Head(names) \in DOMAIN attributes
          THEN <<" ">> \o Head(names) \o <<"=", "\"">>
                       \o attributes[Head(names)] \o <<"\"">>
          ELSE <<>>)
         \o SerializeAttributes(Tail(names), attributes)

RECURSIVE Serialize(_)
RECURSIVE SerializeAll(_)
Serialize(node) ==
    IF node.nodeType = TEXT_NODE
    THEN node.textContent
    ELSE <<"<">> \o node.tagName
                 \o SerializeAttributes(AttributeOrder, node.attributes)
                 \o <<">">> \o SerializeAll(node.childNodes)
                 \o <<"<", "/">> \o node.tagName \o <<">">>
SerializeAll(nodes) ==
    IF nodes = <<>> THEN <<>>
    ELSE Serialize(Head(nodes)) \o SerializeAll(Tail(nodes))

\* the documents the parsing entry points are driven with:
\*   <r></r>, <r n="2"></r>, <R><B></B></R>,
\*   <r><a n="2x"></a></r>, <r><a n="0"></a><a n="x"></a></r>,
\*   <r><a></a><a n="3"></a></r>,
\*   <r> x <a>y</a> z </r>, <r>  <a> y z </a></r>,
\*   <r><a id="1" name="p"></a><a name="p" key="k"></a><a key="k"></a></r>,
\*   <r><a id="" name="p"></a></r>,
\*   <r><parsererror>oops</parsererror></r>
ParseDocuments ==
    { Element(<<"r">>, NoAttributes, <<>>),
      Element(<<"r">>, <<"n">> :> <<"2">>, <<>>),
      Element(<<"R">>, NoAttributes, <<Element(<<"B">>, NoAttributes, <<>>)>>),
      Element(<<"r">>, NoAttributes,
              <<Element(<<"a">>, <<"n">> :> <<"2", "x">>, <<>>)>>),
      Element(<<"r">>, NoAttributes,
              <<Element(<<"a">>, <<"n">> :> <<"0">>, <<>>),
                Element(<<"a">>, <<"n">> :> <<"x">>, <<>>)>>),
      Element(<<"r">>, NoAttributes,
              <<Element(<<"a">>, NoAttributes, <<>>),
                Element(<<"a">>, <<"n">> :> <<"3">>, <<>>)>>),
      Element(<<"r">>, NoAttributes,
              <<TextNode(<<" ", "x", " ">>),
                Element(<<"a">>, NoAttributes, <<TextNode(<<"y">>)>>),
                TextNode(<<" ", "z", " ">>)>>),
      Element(<<"r">>, NoAttributes,
              <<TextNode(<<" ", " ">>),
                Element(<<"a">>, NoAttributes, <<TextNode(<<" ", "y", " ", "z", " ">>)>>)>>),
      Element(<<"r">>, NoAttributes,
              <<Element(<<"a">>, (<<"i", "d">> :> <<"1">>) @@ (<<"n", "a", "m", "e">> :> <<"p">>), <<>>),
                Element(<<"a">>, (<<"n", "a", "m", "e">> :> <<"p">>) @@ (<<"k", "e", "y">> :> <<"k">>), <<>>),
                Element(<<"a">>, <<"k", "e", "y">> :> <<"k">>, <<>>)>>),
      Element(<<"r">>, NoAttributes,
              <<Element(<<"a">>, (<<"i", "d">> :> <<>>) @@ (<<"n", "a", "m", "e">> :> <<"p">>), <<>>)>>),
      Element(<<"r">>, NoAttributes,
              <<Element(parsererror, NoAttributes, <<TextNode(<<"o", "o", "p", "s">>)>>)>>) }

\* texts that are not well-formed: <r><a></r> and <r>
MalformedTexts ==
    { <<"<", "r", ">", "<", "a", ">", "<", "/", "r", ">">>,
      <<"<", "r", ">">> }

\* '', '   \n\t  '
BlankTexts == { <<>>, <<" ", " ", " ", "\n", "\t", " ", " ">> }

ParseInputs ==
    NonStrings
    \cup {JsString(t) : t \in BlankTexts \cup MalformedTexts}
    \cup {JsString(Serialize(d)) : d \in ParseDocuments}

Repeat(c, n) == [i \in 1..n |-> c]

\* what a DOMParser may say of a malformed text: nothing, a short text with
\* runs of whitespace and line breaks, a text exactly as long as the limit,
\* one character longer, a long text that is mostly whitespace, and a long
\* text with whitespace where it is cut
Diagnostics ==
    { <<>>,
      <<" ", "e", "r", "r", "\n", " ", " ", "l", "i", "n", "e", "\t", "1", "\n">>,
      Repeat("e", ErrorMessageLimit),
      Repeat("e", ErrorMessageLimit + 1),
      <<"e">> \o Repeat(" ", ErrorMessageLimit + 1) \o <<"e">>,
      Repeat("e", ErrorMessageLimit - 1) \o <<" ", "\n">> \o Repeat("e", 9) }

\* a text is well-formed when it is the text of a document
WellFormed(text) == \E d \in ParseDocuments : Serialize(d) = text

\* parseStringToDocument: the host's DOMParser gives the document of a
\* well-formed text, and for any other text a document whose element
\* <parsererror> holds its diagnostic
parseStringToDocument(text, diagnostic) ==
    IF WellFormed(text)
    THEN [documentElement |-> CHOOSE d \in ParseDocuments : Serialize(d) = text]
    ELSE [documentElement |->
            Element(parsererror, NoAttributes,
                    IF diagnostic = <<>> THEN <<>> ELSE <<TextNode(diagnostic)>>)]

\* parseXml from the value it is handed: whether it threw, the message of
\* the Error, the tree it returned and the number of DOMParser calls made
parseXmlInput(input, settings, diagnostic) ==
    LET invalid == validateXmlInput(input)
    IN  IF invalid # NullString
        THEN [threw |-> TRUE, message |-> invalid, tree |-> Null, parserCalls |-> 0]
        ELSE LET xmlDoc == parseStringToDocument(input.value, diagnostic)
                 parseError == checkForParseErrors(xmlDoc)
             IN  IF parseError # NullString
                 THEN [threw |-> TRUE, message |-> parseError, tree |-> Null,
                       parserCalls |-> 1]
                 ELSE [threw |-> FALSE, message |-> NullString,
                       tree |-> parseXml(xmlDoc.documentElement, settings),
                       parserCalls |-> 1]

\* safeParseXml reporting success whenever parseXml threw no validation error
safeParseXmlSuccessOnParseError(input, settings, diagnostic) ==
    LET outcome == parseXmlInput(input, settings, diagnostic)
    IN  IF ~outcome.threw
        THEN [success |-> TRUE, tree |-> outcome.tree, error |-> NullString]
        ELSE [success |-> outcome.parserCalls > 0, tree |-> Null,
              error |-> outcome.message]

safeParseXml(input, settings, diagnostic) ==
    LET outcome == parseXmlInput(input, settings, diagnostic)
    IN  IF ~outcome.threw
        THEN [success |-> TRUE, tree |-> outcome.tree, error |-> NullString]
        ELSE [success |-> FALSE, tree |-> Null, error |-> outcome.message]

NoLookup == [xpath |-> <<>>, called |-> FALSE, node |-> Null]

\* no parsing entry point has been called
ParseIdle ==
    /\ xmlString = JsString(<<>>)
    /\ parserDiagnostic = <<>>
    /\ parseOutcome = Null
    /\ parseResult = Null
    /\ lookup = NoLookup

\* the store as it is created, its worker not yet used
StoreIdle ==
    /\ leftError = NullString
    /\ rightError = NullString
    /\ isComparing = FALSE
    /\ now = 1
    /\ listeners = <<>>
    /\ workerInbox = <<>>
    /\ storeInbox = <<>>

----------------------------------------------------------------------------
(* The engine as its caller drives it                                      *)

Init ==
    /\ leftXml \in Documents
    /\ rightXml \in Documents
    /\ xpathSettings \in SettingsValues
    /\ leftTree = Null
    /\ rightTree = Null
    /\ diffResults = Null
    /\ status = NoStatus
    /\ ParseIdle
    /\ StoreIdle

\* handleParseAndCompare on two well-formed documents
handleParseAndCompare ==
    /\ LET lTree == parseXml(leftXml, xpathSettings)
           rTree == parseXml(rightXml, xpathSettings)
       IN  /\ leftTree' = lTree
           /\ rightTree' = rTree
           /\ diffResults' = compareXml(lTree, rTree)
    /\ UNCHANGED <<leftXml, rightXml, xpathSettings, status>>
    /\ UNCHANGED parseVars
    /\ UNCHANGED storeVars

Next == handleParseAndCompare

Spec == Init /\ [][Next]_vars

\* the settings that vary indexAttribute alone: elementsArray and leafOmit
\* at their defaults
IndexSettings ==
    {s \in SettingsValues : s.elementsArray = defaultXpathSettings.elementsArray
                            /\ s.leafOmit = defaultXpathSettings.leafOmit}

\* the comparison of any two documents under the settings of IndexSettings,
\* for the properties of the report
InitReport == Init /\ xpathSettings \in IndexSettings

SpecReport == InitReport /\ [][Next]_vars

\* any document against the empty document <r/> under every settings value,
\* for the properties of the builder that concern one tree
InitBuilder == Init /\ rightXml = Element(<<"r">>, NoAttributes, <<>>)

SpecBuilder == InitBuilder /\ [][Next]_vars

\* The same engine over the documents with at most MaxFrameChildren
\* children and the settings that leave leafOmit on, for the property that
\* re-runs the comparison on every variation of a document's descendants.
MaxFrameChildren == 1

FrameDocuments ==
    {d \in Documents : Len(ElementChildren(d)) <= MaxFrameChildren}

FrameSettings ==
    {s \in SettingsValues : s.elementsArray = <<>> /\ s.leafOmit}

\* the child elements a node's descendants are replaced by
FrameAlternatives == SeqsUpTo(ChildElements, MaxFrameChildren)

InitFrame ==
    /\ leftXml \in FrameDocuments
    /\ rightXml \in FrameDocuments
    /\ xpathSettings \in FrameSettings
    /\ leftTree = Null
    /\ rightTree = Null
    /\ diffResults = Null
    /\ status = NoStatus
    /\ ParseIdle
    /\ StoreIdle

SpecFrame == InitFrame /\ [][Next]_vars

----------------------------------------------------------------------------
(* Status resolution over reports built by hand                            *)

StatusPaths == { <<"/", "r">>, <<"/", "r", "/", "a">>, <<"/", "r", "/", "B">> }

\* the lists a hand-built report may hold; they may overlap across categories
StatusLists ==
    { <<>>, << <<"/", "r">> >>, << <<"/", "r", "/", "a">> >>,
      << <<"/", "r">>, <<"/", "r", "/", "a">> >> }

ManualReports ==
    { [leftOnly |-> lo, rightOnly |-> ro, different |-> d, matched |-> m,
       stats |-> calculateStats(<<>>, <<>>, m, lo, ro, d)] :
        lo \in StatusLists, ro \in StatusLists, d \in StatusLists, m \in StatusLists }

InitStatus ==
    /\ leftXml = Element(<<"r">>, NoAttributes, <<>>)
    /\ rightXml = Element(<<"r">>, NoAttributes, <<>>)
    /\ xpathSettings = defaultXpathSettings
    /\ leftTree = Null
    /\ rightTree = Null
    /\ diffResults \in ManualReports \cup {Null}
    /\ status = NoStatus
    /\ ParseIdle
    /\ StoreIdle

\* a caller resolving the status of a path on one side
ResolveStatus ==
    /\ \E xpath \in StatusPaths, side \in {"left", "right"} :
          status' = [xpath |-> xpath, side |-> side,
                     result |-> getDiffStatus(xpath, diffResults, side)]
    /\ UNCHANGED <<leftXml, rightXml, xpathSettings, leftTree, rightTree, diffResults>>
    /\ UNCHANGED parseVars
    /\ UNCHANGED storeVars

NextStatus == ResolveStatus

SpecStatus == InitStatus /\ [][NextStatus]_vars

----------------------------------------------------------------------------
(* The parsing entry points as a caller drives them                        *)

\* paths no tree of the model holds: '', '/r/x', '/r/a[9]', 'r'
AbsentPaths ==
    { <<>>, <<"/", "r", "/", "x">>, <<"/", "r", "/", "a", "[", "9", "]">>, <<"r">> }

InitParse ==
    /\ leftXml = Element(<<"r">>, NoAttributes, <<>>)
    /\ rightXml = Element(<<"r">>, NoAttributes, <<>>)
    /\ xpathSettings \in SettingsValues
    /\ leftTree = Null
    /\ rightTree = Null
    /\ diffResults = Null
    /\ status = NoStatus
    /\ xmlString \in ParseInputs
    /\ parserDiagnostic \in
          IF xmlString.typeof = "string" /\ xmlString.value \in MalformedTexts
          THEN Diagnostics ELSE {<<>>}
    /\ parseOutcome = Null
    /\ parseResult = Null
    /\ lookup = NoLookup
    /\ StoreIdle

\* a caller calling parseXml(xmlString, xpathSettings)
parseXmlCall ==
    /\ parseOutcome' = parseXmlInput(xmlString, xpathSettings, parserDiagnostic)
    /\ UNCHANGED <<xmlString, parserDiagnostic, parseResult, lookup>>
    /\ UNCHANGED <<xpathSettings, compareVars>>
    /\ UNCHANGED storeVars

\* a caller calling safeParseXml(xmlString, xpathSettings)
safeParseXmlCall ==
    /\ parseResult' = safeParseXml(xmlString, xpathSettings, parserDiagnostic)
    /\ UNCHANGED <<xmlString, parserDiagnostic, parseOutcome, lookup>>
    /\ UNCHANGED <<xpathSettings, compareVars>>
    /\ UNCHANGED storeVars

\* a caller looking a path up in the tree safeParseXml returned
findNodeByXPathCall ==
    /\ parseResult # Null
    /\ parseResult.success
    /\ \E xpath \in Range(getAllXPaths(parseResult.tree)) \cup AbsentPaths :
          lookup' = [xpath |-> xpath, called |-> TRUE,
                     node |-> findNodeByXPath(parseResult.tree, xpath)]
    /\ UNCHANGED <<xmlString, parserDiagnostic, parseOutcome, parseResult>>
    /\ UNCHANGED <<xpathSettings, compareVars>>
    /\ UNCHANGED storeVars

NextParse == parseXmlCall \/ safeParseXmlCall \/ findNodeByXPathCall

SpecParse == InitParse /\ [][NextParse]_vars

----------------------------------------------------------------------------
(* Vocabulary of the properties                                            *)

\* The nodes of a tree by position: the sequence of child indices leading
\* from the root to the node.  Two distinct nodes are two positions.
RECURSIVE Positions(_)
Positions(tree) ==
    {<<>>} \cup UNION { {<<j>> \o q : q \in Positions(tree.children[j])} :
                         j \in 1..Len(tree.children) }

RECURSIVE NodeAt(_, _)
NodeAt(tree, pos) ==
    IF pos = <<>> THEN tree ELSE NodeAt(tree.children[Head(pos)], Tail(pos))

PathsOf(tree) == {NodeAt(tree, pos).xpath : pos \in Positions(tree)}

Compared == diffResults # Null

CommonPaths == PathsOf(leftTree) \cap PathsOf(rightTree)

----------------------------------------------------------------------------
(* Properties of the comparator                                            *)

\* C1: every path that occurs in both trees is in exactly one of the
\* report's matched and different lists, and in neither only-list.
CommonPathsPartition ==
    Compared =>
        \A p \in CommonPaths :
            /\ Has(diffResults.matched, p) # Has(diffResults.different, p)
            /\ ~Has(diffResults.leftOnly, p)
            /\ ~Has(diffResults.rightOnly, p)

\* a comparison that put one common path in matched and another in different
CommonPathsPartitionWitness ==
    /\ Compared
    /\ \E p, q \in CommonPaths :
          /\ Has(diffResults.matched, p)
          /\ Has(diffResults.different, q)

\* C2: leftOnly is exactly paths(L) \ paths(R), rightOnly exactly
\* paths(R) \ paths(L), and no such path is in matched, in different or
\* in the other side's only-list.
OnlyListsAreSetDifferences ==
    Compared =>
        /\ Range(diffResults.leftOnly) = PathsOf(leftTree) \ PathsOf(rightTree)
        /\ Range(diffResults.rightOnly) = PathsOf(rightTree) \ PathsOf(leftTree)
        /\ \A p \in Range(diffResults.leftOnly) \cup Range(diffResults.rightOnly) :
              /\ ~Has(diffResults.matched, p)
              /\ ~Has(diffResults.different, p)
              /\ ~(Has(diffResults.leftOnly, p) /\ Has(diffResults.rightOnly, p))

\* a comparison with a left-only path, a right-only path and a common path
OnlyListsWitness ==
    /\ Compared
    /\ PathsOf(leftTree) \ PathsOf(rightTree) # {}
    /\ PathsOf(rightTree) \ PathsOf(leftTree) # {}
    /\ Len(diffResults.leftOnly) > 0
    /\ Len(diffResults.rightOnly) > 0
    /\ Len(diffResults.matched) + Len(diffResults.different) > 1

\* equality of two attribute mappings: same keys, same value for every key
SameAttributes(a, b) ==
    /\ DOMAIN a = DOMAIN b
    /\ \A k \in DOMAIN a : a[k] = b[k]

\* C3: a common path is matched iff the two nodes' textContent are equal and
\* their attribute maps are equal; in every other case it is different.
MatchedIffEquivalent ==
    Compared =>
        \A p \in CommonPaths :
            LET l == flattenTree(leftTree)[p]
                r == flattenTree(rightTree)[p]
                equivalent == l.textContent = r.textContent
                              /\ SameAttributes(l.attributes, r.attributes)
            IN  /\ Has(diffResults.matched, p) <=> equivalent
                /\ Has(diffResults.different, p) <=> ~equivalent

\* a common path whose nodes differ only in the number of attributes, put in
\* different, next to a matched path whose nodes carry an attribute
MatchedIffEquivalentWitness ==
    /\ Compared
    /\ \E p, q \in CommonPaths :
          LET l == flattenTree(leftTree)[p]
              r == flattenTree(rightTree)[p]
          IN  /\ l.textContent = r.textContent
              /\ DOMAIN l.attributes = {}
              /\ DOMAIN r.attributes # {}
              /\ Has(diffResults.different, p)
              /\ DOMAIN flattenTree(leftTree)[q].attributes # {}
              /\ Has(diffResults.matched, q)

----------------------------------------------------------------------------
(* Properties of the tree builder                                          *)

Parsed == leftTree # Null /\ rightTree # Null

\* no two distinct nodes of the tree have the same path
UniquePaths(tree) ==
    \A p, q \in Positions(tree) :
        p # q => NodeAt(tree, p).xpath # NodeAt(tree, q).xpath

\* C4: in any tree parseXml returns, under any settings, no two distinct
\* nodes have the same path string.
PathsAreUnique ==
    Parsed => UniquePaths(leftTree) /\ UniquePaths(rightTree)

\* C5: comparing two parses of the same document under the same settings
\* gives empty leftOnly, rightOnly and different lists and as many matched
\* entries as the tree has nodes.
RoundTripIdentity ==
    (Compared /\ leftXml = rightXml) =>
        /\ diffResults.leftOnly = <<>>
        /\ diffResults.rightOnly = <<>>
        /\ diffResults.different = <<>>
        /\ Len(diffResults.matched) = countNodes(leftTree)

\* the positions, among the children of a node, of those with the tag of
\* child j, in document order
SameTagChildren(node, j) ==
    SelectSeq([k \in 1..Len(node.children) |-> k],
              LAMBDA k : node.children[k].tagName = node.children[j].tagName)

\* C6: with default settings, when a parent has several children with the
\* same tag, the k-th of them has the path parentPath/tag[k], for every k
\* from 1.
SiblingsIndexedFromOne ==
    (Parsed /\ xpathSettings = defaultXpathSettings) =>
        \A pos \in Positions(leftTree) :
            LET parent == NodeAt(leftTree, pos)
            IN  \A j \in 1..Len(parent.children) :
                    LET same == SameTagChildren(parent, j)
                        k == IndexOf(same, j) + 1
                        child == parent.children[j]
                    IN  Len(same) > 1 =>
                            child.xpath = parent.xpath \o <<"/">> \o child.tagName
                                          \o <<"[">> \o NumberToString(k) \o <<"]">>

\* the path of the parent of the node at a position ("" for the root)
ParentPath(tree, pos) ==
    IF pos = <<>> THEN <<>> ELSE NodeAt(tree, SubSeq(pos, 1, Len(pos) - 1)).xpath

\* what the claim says the path of the node at pos is
BracketOnlyAboveOne(tree, pos) ==
    LET node == NodeAt(tree, pos)
        base == ParentPath(tree, pos) \o <<"/">> \o node.tagName
    IN  /\ node.siblingIndex > 1 =>
              node.xpath = base \o <<"[">> \o NumberToString(node.siblingIndex) \o <<"]">>
        /\ node.siblingIndex = 1 => node.xpath = base
        /\ (node.xpath[Len(node.xpath)] = "]") <=> (node.siblingIndex > 1)

StatsTotalsAreNodeCounts ==
    Compared =>
        /\ diffResults.stats.totalLeft = countNodes(leftTree)
        /\ diffResults.stats.totalRight = countNodes(rightTree)

----------------------------------------------------------------------------
(* Frame property of the classification                                    *)

\* childNodes with its j-th child element replaced by new
RECURSIVE ReplaceElementChild(_, _, _)
ReplaceElementChild(childNodes, j, new) ==
    IF childNodes = <<>> THEN <<>>
    ELSE IF Head(childNodes).nodeType # ELEMENT_NODE
         THEN <<Head(childNodes)>> \o ReplaceElementChild(Tail(childNodes), j, new)
         ELSE IF j = 1
              THEN <<new>> \o Tail(childNodes)
              ELSE <<Head(childNodes)>> \o ReplaceElementChild(Tail(childNodes), j - 1, new)

\* the document with the child elements of the element at pos replaced by
\* kids: everything outside the descendants of that element is kept
RECURSIVE WithDescendants(_, _, _)
WithDescendants(element, pos, kids) ==
    IF pos = <<>>
    THEN Element(element.tagName, element.attributes,
                 SelectSeq(element.childNodes, LAMBDA n : n.nodeType # ELEMENT_NODE) \o kids)
    ELSE Element(element.tagName, element.attributes,
                 ReplaceElementChild(element.childNodes, Head(pos),
                     WithDescendants(ElementChildren(element)[Head(pos)], Tail(pos), kids)))

Classification(results, p) ==
    IF Has(results.matched, p) THEN "matched"
    ELSE IF Has(results.different, p) THEN "different"
    ELSE "none"

Prefixes(pos) == {SubSeq(pos, 1, n) : n \in 0..Len(pos)}

\* the node at pos and its ancestors keep their path and their class when the
\* descendants of the node at pos of the left (right) document are replaced
LeftDescendantsIgnored(pos, kids) ==
    LET altTree == parseXml(WithDescendants(leftXml, pos, kids), xpathSettings)
        altResults == compareXml(altTree, rightTree)
    IN  \A a \in Prefixes(pos) :
            LET p == NodeAt(leftTree, a).xpath
            IN  /\ NodeAt(altTree, a).xpath = p
                /\ p \in PathsOf(rightTree) =>
                      Classification(altResults, p) = Classification(diffResults, p)

RightDescendantsIgnored(pos, kids) ==
    LET altTree == parseXml(WithDescendants(rightXml, pos, kids), xpathSettings)
        altResults == compareXml(leftTree, altTree)
    IN  \A a \in Prefixes(pos) :
            LET p == NodeAt(rightTree, a).xpath
            IN  /\ NodeAt(altTree, a).xpath = p
                /\ p \in PathsOf(leftTree) =>
                      Classification(altResults, p) = Classification(diffResults, p)

\* C8: the class of a common path depends only on the two nodes' own
\* textContent and attributes: replacing the descendants of a node of either
\* tree never moves the path of that node, or of an ancestor of it, between
\* matched and different.
ClassificationIgnoresDescendants ==
    Compared =>
        \A kids \in FrameAlternatives :
            /\ \A pos \in Positions(leftTree) : LeftDescendantsIgnored(pos, kids)
            /\ \A pos \in Positions(rightTree) : RightDescendantsIgnored(pos, kids)

\* the root is matched although the two roots have different children, and
\* /r/a is different between a left node with a child and a right node
\* without one: removing that child leaves it different
ClassificationIgnoresDescendantsWitness ==
    /\ Compared
    /\ Has(diffResults.matched, <<"/", "r">>)
    /\ Has(diffResults.different, <<"/", "r", "/", "a">>)
    /\ Len(leftTree.children) = 1
    /\ Len(rightTree.children) = 1
    /\ leftTree.children[1].children # <<>>
    /\ rightTree.children[1].children = <<>>
    /\ Classification(compareXml(parseXml(WithDescendants(leftXml, <<1>>, <<>>),
                                           xpathSettings), rightTree),
                       <<"/", "r", "/", "a">>) = "different"

----------------------------------------------------------------------------
(* Status resolution                                                       *)

Resolved == status.side # "none"

OwnOnlyList(results, side) ==
    IF side = "left" THEN results.leftOnly ELSE results.rightOnly

OtherOnlyList(results, side) ==
    IF side = "left" THEN results.rightOnly ELSE results.leftOnly

\* C10: getDiffStatus returns neutral for a null report; otherwise matched
\* if the path is in matched, else different if it is in different, else
\* extra if it is in the only-list of the given side, else neutral, also
\* when the lists overlap; a path that is only in the other side's
\* only-list resolves to neutral.
StatusPriorityOrder ==
    Resolved =>
        LET p == status.xpath
            r == status.result
        IN  IF diffResults = Null
            THEN r = "neutral"
            ELSE LET inMatched == p \in Range(diffResults.matched)
                     inDifferent == p \in Range(diffResults.different)
                     inOwn == p \in Range(OwnOnlyList(diffResults, status.side))
                     inOther == p \in Range(OtherOnlyList(diffResults, status.side))
                 IN  /\ inMatched => r = "matched"
                     /\ (~inMatched /\ inDifferent) => r = "different"
                     /\ (~inMatched /\ ~inDifferent /\ inOwn) => r = "extra"
                     /\ (~inMatched /\ ~inDifferent /\ ~inOwn) => r = "neutral"
                     /\ (~inMatched /\ ~inDifferent /\ ~inOwn /\ inOther) => r = "neutral"

\* a path that a hand-built report holds in matched, in different and in
\* the side's only-list at once, resolved to matched
StatusPriorityOrderWitness ==
    /\ Resolved
    /\ diffResults # Null
    /\ Has(diffResults.matched, status.xpath)
    /\ Has(diffResults.different, status.xpath)
    /\ Has(OwnOnlyList(diffResults, status.side), status.xpath)
    /\ status.result = "matched"

----------------------------------------------------------------------------
(* Properties of the parsing entry points                                  *)

ParseCalled == parseOutcome # Null

SafeParseCalled == parseResult # Null

IsStringInput == xmlString.typeof = "string"

\* a string that is empty or made of whitespace only
IsBlank(chars) == \A i \in 1..Len(chars) : chars[i] \in Whitespace

StartsWith(s, prefix) ==
    Len(s) >= Len(prefix) /\ SubSeq(s, 1, Len(prefix)) = prefix

EndsWith(s, suffix) ==
    Len(s) >= Len(suffix) /\ SubSeq(s, Len(s) - Len(suffix) + 1, Len(s)) = suffix

\* C11: parseXml fails with 'XML input must be a string' for every input
\* that is no string and with 'XML input cannot be empty' for every string
\* that is empty or only whitespace; in both cases the XML parser has not
\* been invoked and no tree is returned.
ValidationFailsBeforeParsing ==
    ParseCalled =>
        /\ ~IsStringInput =>
              /\ parseOutcome.threw
              /\ parseOutcome.message = MustBeStringMessage
              /\ parseOutcome.parserCalls = 0
              /\ parseOutcome.tree = Null
        /\ (IsStringInput /\ IsBlank(xmlString.value)) =>
              /\ parseOutcome.threw
              /\ parseOutcome.message = CannotBeEmptyMessage
              /\ parseOutcome.parserCalls = 0
              /\ parseOutcome.tree = Null

\* parseXml called with a string of several whitespace characters, which
\* is rejected as empty before any parsing
ValidationFailsBeforeParsingWitness ==
    /\ ParseCalled
    /\ IsStringInput
    /\ Len(xmlString.value) > 1
    /\ IsBlank(xmlString.value)
    /\ parseOutcome.threw
    /\ parseOutcome.message = CannotBeEmptyMessage
    /\ parseOutcome.parserCalls = 0

\* C12: for a string that is not blank, parseXml fails with a message
\* starting 'Invalid XML: ' iff the text is not well-formed; every
\* well-formed document, whatever its element names, yields a tree.
InvalidXmlIffMalformed ==
    (ParseCalled /\ IsStringInput /\ ~IsBlank(xmlString.value)) =>
        /\ (parseOutcome.threw /\ StartsWith(parseOutcome.message, InvalidXmlPrefix))
              <=> ~WellFormed(xmlString.value)
        /\ WellFormed(xmlString.value) =>
              (~parseOutcome.threw /\ parseOutcome.tree # Null)

\* the number of elements of the document a well-formed text stands for
ElementCount(text) ==
    Len(ElementsInOrder(CHOOSE d \in ParseDocuments : Serialize(d) = text))

\* C13: safeParseXml returns either {success: true, tree: a complete tree,
\* error: null} or {success: false, tree: null, error: the failure message};
\* never a tree together with an error, nor a partial tree.
SafeParseAllOrNothing ==
    SafeParseCalled =>
        \/ /\ parseResult.success = TRUE
           /\ parseResult.error = NullString
           /\ parseResult.tree # Null
           /\ WellFormed(xmlString.value)
           /\ countNodes(parseResult.tree) = ElementCount(xmlString.value)
        \/ /\ parseResult.success = FALSE
           /\ parseResult.tree = Null
           /\ \/ parseResult.error = MustBeStringMessage
              \/ parseResult.error = CannotBeEmptyMessage
              \/ StartsWith(parseResult.error, InvalidXmlPrefix)

\* safeParseXml called with a malformed text: the result holds the parser's
\* failure message and no tree
SafeParseAllOrNothingWitness ==
    /\ SafeParseCalled
    /\ IsStringInput
    /\ xmlString.value \in MalformedTexts
    /\ parseResult.success = FALSE
    /\ parseResult.tree = Null
    /\ StartsWith(parseResult.error, InvalidXmlPrefix)

\* parseXml failed on a malformed text with the parser's diagnostic
DiagnosticReported ==
    /\ ParseCalled
    /\ IsStringInput
    /\ xmlString.value \in MalformedTexts
    /\ parseOutcome.threw
    /\ StartsWith(parseOutcome.message, InvalidXmlPrefix)

\* the part of the message after 'Invalid XML: '
ReportedDiagnostic ==
    SubSeq(parseOutcome.message, Len(InvalidXmlPrefix) + 1, Len(parseOutcome.message))

\* the text the parser gave, or the stand-in for an empty one
ParserText ==
    IF parserDiagnostic = <<>> THEN UnknownParsingError ELSE parserDiagnostic

\* one line, with single spaces as the only whitespace and none in front
SingleLine(s) ==
    /\ \A i \in 1..Len(s) : s[i] \notin (Whitespace \ {" "})
    /\ \A i \in 1..(Len(s) - 1) : ~(s[i] = " " /\ s[i + 1] = " ")
    /\ s # <<>> => s[1] # " "

\* the characters of a text that are no whitespace
Visible(s) == SelectSeq(s, LAMBDA c : c \notin Whitespace)

\* C14 as stated: the diagnostic in the message is whitespace-collapsed to
\* a single line and at most 200 characters long, and ends in an ellipsis
\* when the parser's text was longer than that.
DiagnosticWithinLimit ==
    DiagnosticReported =>
        /\ SingleLine(ReportedDiagnostic)
        /\ Len(ReportedDiagnostic) <= ErrorMessageLimit
        /\ Len(ParserText) > ErrorMessageLimit => EndsWith(ReportedDiagnostic, Ellipsis)

\* C14, amended: the diagnostic in the message is a single line; when the
\* whitespace-collapsed text is at most 200 characters long it is reported
\* whole, otherwise its first 200 characters are reported followed by
\* '...', 203 characters in all.
DiagnosticCutAtLimit ==
    DiagnosticReported =>
        LET d == ReportedDiagnostic
        IN  /\ SingleLine(d)
            /\ Len(d) <= ErrorMessageLimit + Len(Ellipsis)
            /\ IF Len(d) <= ErrorMessageLimit
               THEN /\ Visible(d) = Visible(ParserText)
                    /\ d # <<>> => d[Len(d)] # " "
               ELSE /\ Len(d) = ErrorMessageLimit + Len(Ellipsis)
                    /\ EndsWith(d, Ellipsis)
                    /\ LET cut == Visible(SubSeq(d, 1, ErrorMessageLimit))
                       IN  /\ Len(cut) < Len(Visible(ParserText))
                           /\ cut = SubSeq(Visible(ParserText), 1, Len(cut))

\* a diagnostic one character over the limit, reported as its first 200
\* characters and the ellipsis
DiagnosticCutAtLimitWitness ==
    /\ DiagnosticReported
    /\ Len(parserDiagnostic) = ErrorMessageLimit + 1
    /\ Len(ReportedDiagnostic) = ErrorMessageLimit + Len(Ellipsis)
    /\ EndsWith(ReportedDiagnostic, Ellipsis)

\* parseXml returned a tree
TreeReturned == ParseCalled /\ ~parseOutcome.threw

\* C15: for every successful parseXml call, under any settings, the path of
\* the root node is '/' followed by the tag of the root element, with no
\* bracket suffix.
RootPathIsSlashTag ==
    TreeReturned =>
        parseOutcome.tree.xpath = <<"/">> \o parseOutcome.tree.tagName

\* the document element of the text handed to parseXml
ParsedDocument == CHOOSE d \in ParseDocuments : Serialize(d) = xmlString.value

\* the element of a document at a position
RECURSIVE DomAt(_, _)
DomAt(element, pos) ==
    IF pos = <<>> THEN element
    ELSE DomAt(ElementChildren(element)[Head(pos)], Tail(pos))

\* a decimal numeral of a positive integer
IsPositiveInteger(s) ==
    /\ s # <<>>
    /\ \A i \in 1..Len(s) : IsDigit(s[i])
    /\ DigitPrefixValue(s, 0) >= 1

\* the 1-based position of the node at pos among the same-tag children of
\* its parent
PositionAmongSameTag(tree, pos) ==
    IF pos = <<>> THEN 1
    ELSE LET parent == NodeAt(tree, SubSeq(pos, 1, Len(pos) - 1))
             j == pos[Len(pos)]
         IN  IndexOf(SameTagChildren(parent, j), j) + 1

\* the index the claim gives the node at pos
ClaimedIndex(tree, pos) ==
    LET element == DomAt(ParsedDocument, pos)
        indexAttribute == xpathSettings.indexAttribute
    IN  IF /\ indexAttribute # NullString
           /\ indexAttribute \in DOMAIN element.attributes
           /\ IsPositiveInteger(element.attributes[indexAttribute])
        THEN DigitPrefixValue(element.attributes[indexAttribute], 0)
        ELSE PositionAmongSameTag(tree, pos)

\* C16: when settings.indexAttribute names an attribute present on an
\* element with a positive-integer value, that value is the element's
\* resolved index (its siblingIndex and path suffix); when the attribute is
\* absent or its value is no positive integer, the resolved index is the
\* element's 1-based position among the same-tag children of its parent.
ResolvedIndexRule ==
    TreeReturned =>
        \A pos \in Positions(parseOutcome.tree) :
            LET node == NodeAt(parseOutcome.tree, pos)
                index == ClaimedIndex(parseOutcome.tree, pos)
                base == ParentPath(parseOutcome.tree, pos) \o <<"/">> \o node.tagName
            IN  /\ node.siblingIndex = index
                /\ node.xpath =
                      IF index > 1
                      THEN base \o <<"[">> \o NumberToString(index) \o <<"]">>
                      ELSE base

\* the concatenation of a sequence of strings
RECURSIVE Concat(_)
Concat(strings) ==
    IF strings = <<>> THEN <<>> ELSE Head(strings) \o Concat(Tail(strings))

\* the trimmed text of the text nodes directly under an element, in
\* document order, without the empty ones
DirectFragments(element) ==
    LET textNodes == SelectSeq(element.childNodes, LAMBDA n : n.nodeType = TEXT_NODE)
        trimmed == [k \in 1..Len(textNodes) |-> Trim(textNodes[k].textContent)]
    IN  SelectSeq(trimmed, LAMBDA t : t # <<>>)

\* C17: a node's textContent is the concatenation, in document order and
\* with no separator, of its direct text-node children, each trimmed and
\* the empty ones skipped; text inside child elements is not part of it.
DirectTextOnly ==
    TreeReturned =>
        \A pos \in Positions(parseOutcome.tree) :
            NodeAt(parseOutcome.tree, pos).textContent =
                Concat(DirectFragments(DomAt(ParsedDocument, pos)))

\* <r> x <a>y</a> z </r>: the root's text is 'xz', the child's is 'y'
DirectTextOnlyWitness ==
    /\ TreeReturned
    /\ Len(SelectSeq(ParsedDocument.childNodes, LAMBDA n : n.nodeType = TEXT_NODE)) = 2
    /\ parseOutcome.tree.textContent = <<"x", "z">>
    /\ Len(parseOutcome.tree.children) = 1
    /\ parseOutcome.tree.children[1].textContent = <<"y">>

\* the key the claim gives a node
ClaimedKey(node) ==
    LET present == SelectSeq(identifyingAttributes,
                             LAMBDA a : a \in DOMAIN node.attributes)
    IN  IF present = <<>>
        THEN node.tagName
        ELSE node.tagName \o <<"[", "@">> \o Head(present) \o <<"=", "\"">>
                          \o node.attributes[Head(present)] \o <<"\"", "]">>

\* C18: a node's key is tag[@attr="value"] for the first of id, name, key
\* that is present on the element, and the bare tag name only when none of
\* the three is present.
KeyUsesFirstPresentAttribute ==
    TreeReturned =>
        \A pos \in Positions(parseOutcome.tree) :
            NodeAt(parseOutcome.tree, pos).key = ClaimedKey(NodeAt(parseOutcome.tree, pos))

LookedUp == lookup.called

\* the nodes of a tree with a given path
NodesWithPath(tree, xpath) ==
    {NodeAt(tree, pos) : pos \in {q \in Positions(tree) : NodeAt(tree, q).xpath = xpath}}

\* C20: findNodeByXPath(tree, p) returns a node of the tree whose path is p
\* whenever the tree has one, and null when no node of the tree has path p.
FindNodeFindsOrNull ==
    LookedUp =>
        LET candidates == NodesWithPath(parseResult.tree, lookup.xpath)
        IN  IF candidates # {}
            THEN lookup.node \in candidates /\ lookup.node.xpath = lookup.xpath
            ELSE lookup.node = Null

\* a path that is in no node of a tree with children, looked up: null
FindNodeFindsOrNullWitness ==
    /\ LookedUp
    /\ parseResult.tree.children # <<>>
    /\ lookup.xpath = <<"/", "r", "/", "x">>
    /\ NodesWithPath(parseResult.tree, lookup.xpath) = {}
    /\ lookup.node = Null

----------------------------------------------------------------------------
(* Properties of the report and of the traversal                           *)

\* the nodes the two flattened maps hold for a common path are equivalent
EquivalentAt(p) ==
    LET l == flattenTree(leftTree)[p]
        r == flattenTree(rightTree)[p]
    IN  l.textContent = r.textContent /\ SameAttributes(l.attributes, r.attributes)

\* C21: areTreesIdentical(report) is true exactly when leftOnly, rightOnly
\* and different are all empty, whatever matched holds: true for two parses
\* of the same document, false when a path is on one side only or differs.
IdenticalIffNoDifference ==
    Compared =>
        /\ areTreesIdentical(diffResults) <=>
              (Range(diffResults.leftOnly) \cup Range(diffResults.rightOnly)
                   \cup Range(diffResults.different) = {})
        /\ leftXml = rightXml => areTreesIdentical(diffResults)
        /\ PathsOf(leftTree) # PathsOf(rightTree) => ~areTreesIdentical(diffResults)
        /\ (\E p \in CommonPaths : ~EquivalentAt(p)) => ~areTreesIdentical(diffResults)

\* two trees with the same paths, one of them different, and nothing on one
\* side only: not identical
IdenticalIffNoDifferenceWitness ==
    /\ Compared
    /\ diffResults.leftOnly = <<>>
    /\ diffResults.rightOnly = <<>>
    /\ Len(diffResults.different) = 1
    /\ Len(diffResults.matched) > 0
    /\ ~areTreesIdentical(diffResults)

\* a position comes before another in document order: it is a proper prefix
\* of it, or smaller at the first index where they differ
Before(a, b) ==
    \E k \in 0..Len(a) :
        /\ k <= Len(b)
        /\ SubSeq(a, 1, k) = SubSeq(b, 1, k)
        /\ \/ (k = Len(a) /\ k < Len(b))
           \/ (k < Len(a) /\ k < Len(b) /\ a[k + 1] < b[k + 1])

\* the 1-based rank of a position in document order
Rank(tree, pos) == 1 + Cardinality({q \in Positions(tree) : Before(q, pos)})

\* the last position, in document order, of a node with the path
LastPositionWith(tree, p) ==
    CHOOSE pos \in Positions(tree) :
        /\ NodeAt(tree, pos).xpath = p
        /\ \A q \in Positions(tree) : NodeAt(tree, q).xpath = p => ~Before(pos, q)

FlattensToLastVisited(tree) ==
    LET map == flattenTree(tree)
        visits == traverseAndCollect(tree)
    IN  /\ Len(visits) = Cardinality(Positions(tree))
        /\ \A pos \in Positions(tree) : visits[Rank(tree, pos)] = NodeAt(tree, pos)
        /\ DOMAIN map = PathsOf(tree)
        /\ Cardinality(DOMAIN map) = Cardinality(PathsOf(tree))
        /\ \A p \in PathsOf(tree) : map[p] = NodeAt(tree, LastPositionWith(tree, p))

\* C22: flattenTree visits the nodes depth-first, every parent before its
\* children, and maps a path several nodes share to the node visited last,
\* so the map has as many entries as the tree has distinct paths.
FlattenKeepsLastVisited ==
    Parsed => FlattensToLastVisited(leftTree) /\ FlattensToLastVisited(rightTree)

\* two children of the left root share a path and differ, and the map holds
\* the second
FlattenKeepsLastVisitedWitness ==
    /\ Parsed
    /\ Len(leftTree.children) = 2
    /\ leftTree.children[1].xpath = leftTree.children[2].xpath
    /\ leftTree.children[1] # leftTree.children[2]
    /\ flattenTree(leftTree)[leftTree.children[1].xpath] = leftTree.children[2]
    /\ Cardinality(DOMAIN flattenTree(leftTree)) < countNodes(leftTree)

\* C27: in every report the statistics add up: matched + different +
\* leftOnly = totalLeft, matched + different + rightOnly = totalRight, and
\* each of the four counts is the length of the list of the same name.
StatsAddUp ==
    Compared =>
        LET stats == diffResults.stats
        IN  /\ stats.matched + stats.different + stats.leftOnly = stats.totalLeft
            /\ stats.matched + stats.different + stats.rightOnly = stats.totalRight
            /\ stats.matched = Len(diffResults.matched)
            /\ stats.different = Len(diffResults.different)
            /\ stats.leftOnly = Len(diffResults.leftOnly)
            /\ stats.rightOnly = Len(diffResults.rightOnly)

\* a report with all four lists filled and more left-only than right-only
\* paths
StatsAddUpWitness ==
    /\ Compared
    /\ diffResults.stats.matched > 0
    /\ diffResults.stats.different > 0
    /\ diffResults.stats.rightOnly > 0
    /\ diffResults.stats.leftOnly > diffResults.stats.rightOnly

\* C24: compareXml is symmetric under swapping its arguments: the swapped
\* comparison has the same matched set and the same different set, its
\* leftOnly is the other's rightOnly and its rightOnly the other's leftOnly.
CompareIsSymmetric ==
    Compared =>
        LET swapped == compareXml(rightTree, leftTree)
        IN  /\ Range(swapped.matched) = Range(diffResults.matched)
            /\ Range(swapped.different) = Range(diffResults.different)
            /\ swapped.leftOnly = diffResults.rightOnly
            /\ swapped.rightOnly = diffResults.leftOnly

\* a comparison whose left root has no text and whose right root has some,
\* with paths on either side only: the root is different both ways round
CompareIsSymmetricWitness ==
    /\ Compared
    /\ leftTree.textContent = <<>>
    /\ rightTree.textContent # <<>>
    /\ diffResults.leftOnly # <<>>
    /\ diffResults.rightOnly # <<>>
    /\ Has(diffResults.different, leftTree.xpath)
    /\ Has(compareXml(rightTree, leftTree).different, leftTree.xpath)

\* the positions strictly below a position
DescendantsOf(tree, pos) ==
    {q \in Positions(tree) : Len(q) > Len(pos) /\ SubSeq(q, 1, Len(pos)) = pos}

OnlyListClosed(tree, onlyList) ==
    \A pos \in Positions(tree) :
        Has(onlyList, NodeAt(tree, pos).xpath) =>
            \A q \in DescendantsOf(tree, pos) : Has(onlyList, NodeAt(tree, q).xpath)

\* C25: the only-lists are closed under descent: when a node's path is in
\* leftOnly, so is the path of every descendant of that node in the left
\* tree, and the same for rightOnly and the right tree.
OnlyListsClosedUnderDescent ==
    Compared =>
        /\ OnlyListClosed(leftTree, diffResults.leftOnly)
        /\ OnlyListClosed(rightTree, diffResults.rightOnly)

\* a left-only node with a child whose tag the right tree has elsewhere:
\* the child is left-only as well
OnlyListsClosedUnderDescentWitness ==
    /\ Compared
    /\ \E j \in 1..Len(leftTree.children) :
          LET node == leftTree.children[j]
          IN  /\ node.children # <<>>
              /\ Has(diffResults.leftOnly, node.xpath)
              /\ Has(diffResults.leftOnly, node.children[1].xpath)
              /\ \E k \in 1..Len(rightTree.children) :
                    rightTree.children[k].tagName = node.children[1].tagName

\* the paths of a tree by position
PathAt(tree) == [pos \in Positions(tree) |-> NodeAt(tree, pos).xpath]

\* the settings that differ from the current ones in elementsArray and
\* leafOmit only
SameIndexAttribute ==
    {s \in SettingsValues : s.indexAttribute = xpathSettings.indexAttribute}

SameTagCount(tree, pos) ==
    IF pos = <<>> THEN 1
    ELSE Len(SameTagChildren(NodeAt(tree, SubSeq(pos, 1, Len(pos) - 1)), pos[Len(pos)]))

IndexWithinTotal(tree) ==
    \A pos \in Positions(tree) :
        LET node == NodeAt(tree, pos)
        IN  /\ node.siblingTotal = SameTagCount(tree, pos)
            /\ 1 <= node.siblingIndex
            /\ node.siblingIndex <= node.siblingTotal

\* C28: for every node of a tree built by parseXml under any settings,
\* 1 <= siblingIndex <= siblingTotal, siblingTotal being the number of
\* children of the node's parent with the node's tag (1 for the root).
SiblingIndexWithinTotal ==
    Parsed => IndexWithinTotal(leftTree) /\ IndexWithinTotal(rightTree)

----------------------------------------------------------------------------
(* The worker (xml.worker.js) and the store that drives it (useXmlStore)   *)

\* bounds of the store model: the last clock value, the messages in flight
MaxClock == 2
MaxInFlight == 1

\* what the editors put into the store: '', <r></r> and the malformed <r>
StoreTexts ==
    { <<>>,
      Serialize(Element(<<"r">>, NoAttributes, <<>>)),
      <<"<", "r", ">">> }

\* the diagnostic the host's parser gives for a malformed text
StoreDiagnostic == <<"e", "r", "r">>

\* Comparison failed: 
ComparisonFailedPrefix ==
    <<"C", "o", "m", "p", "a", "r", "i", "s", "o", "n", " ",
      "f", "a", "i", "l", "e", "d", ":", " ">>

\* Unknown message type: 
UnknownMessageType ==
    <<"U", "n", "k", "n", "o", "w", "n", " ", "m", "e", "s", "s", "a", "g", "e", " ",
      "t", "y", "p", "e", ":", " ">>

ResultMessage(id, payload) ==
    [type |-> "RESULT", id |-> id, payload |-> payload, error |-> Undefined]

ErrorMessage(id, error) ==
    [type |-> "ERROR", id |-> id, payload |-> Null, error |-> error]

\* handleParseAndCompare answering with no tree at all once a parse failed
handleParseAndCompareMessageNoTrees(payload, id, diagnostic) ==
    LET left == parseXmlInput(JsString(payload.leftXml), payload.xpathSettings, diagnostic)
        right == parseXmlInput(JsString(payload.rightXml), payload.xpathSettings, diagnostic)
    IN  IF left.threw \/ right.threw
        THEN ResultMessage(id, [leftTree |-> Null, rightTree |-> Null,
                                leftError |-> left.message,
                                rightError |-> right.message,
                                diffResults |-> Null])
        ELSE ResultMessage(id, [leftTree |-> left.tree, rightTree |-> right.tree,
                                diffResults |-> compareXml(left.tree, right.tree),
                                leftError |-> NullString,
                                rightError |-> NullString])

\* the message handleParseAndCompare posts for a request; compareXml does not
\* throw on trees the builder made, so no 'Comparison failed' answer arises
handleParseAndCompareMessage(payload, id, diagnostic) ==
    LET left == parseXmlInput(JsString(payload.leftXml), payload.xpathSettings, diagnostic)
        right == parseXmlInput(JsString(payload.rightXml), payload.xpathSettings, diagnostic)
        leftErr == IF left.threw THEN left.message ELSE NullString
        rightErr == IF right.threw THEN right.message ELSE NullString
    IN  IF leftErr # NullString \/ rightErr # NullString
        THEN ResultMessage(id, [leftTree |-> IF left.threw THEN Null ELSE left.tree,
                                rightTree |-> IF right.threw THEN Null ELSE right.tree,
                                leftError |-> leftErr,
                                rightError |-> rightErr,
                                diffResults |-> Null])
        ELSE ResultMessage(id, [leftTree |-> left.tree, rightTree |-> right.tree,
                                diffResults |-> compareXml(left.tree, right.tree),
                                leftError |-> NullString,
                                rightError |-> NullString])

\* the store fields a listener writes
StoreFields ==
    [leftTree |-> leftTree, rightTree |-> rightTree, diffResults |-> diffResults,
     leftError |-> leftError, rightError |-> rightError, isComparing |-> isComparing]

\* a listener that leaves isComparing set when the answer reports a parse error
installResponseStillComparing(fields, message) ==
    IF message.type = "RESULT"
    THEN [leftTree |-> message.payload.leftTree,
          rightTree |-> message.payload.rightTree,
          diffResults |-> message.payload.diffResults,
          leftError |-> message.payload.leftError,
          rightError |-> message.payload.rightError,
          isComparing |-> message.payload.diffResults = Null]
    ELSE IF message.type = "ERROR"
    THEN [fields EXCEPT !.isComparing = FALSE, !.leftError = message.error,
                        !.rightError = message.error, !.diffResults = Null]
    ELSE fields

\* what a listener whose request id matches writes into the store
installResponse(fields, message) ==
    IF message.type = "RESULT"
    THEN [leftTree |-> message.payload.leftTree,
          rightTree |-> message.payload.rightTree,
          diffResults |-> message.payload.diffResults,
          leftError |-> message.payload.leftError,
          rightError |-> message.payload.rightError,
          isComparing |-> FALSE]
    ELSE IF message.type = "ERROR"
    THEN [fields EXCEPT !.isComparing = FALSE, !.leftError = message.error,
                        !.rightError = message.error, !.diffResults = Null]
    ELSE fields

InitStore ==
    /\ leftXml = <<>>
    /\ rightXml = <<>>
    /\ xpathSettings = defaultXpathSettings
    /\ leftTree = Null
    /\ rightTree = Null
    /\ diffResults = Null
    /\ status = NoStatus
    /\ xmlString = JsString(<<>>)
    /\ parserDiagnostic = StoreDiagnostic
    /\ parseOutcome = Null
    /\ parseResult = Null
    /\ lookup = NoLookup
    /\ StoreIdle

storeFrame == <<status, xmlString, parserDiagnostic, parseOutcome, parseResult, lookup>>

setLeftXml ==
    /\ \E xml \in StoreTexts : leftXml' = xml
    /\ leftTree' = Null
    /\ leftError' = NullString
    /\ diffResults' = Null
    /\ UNCHANGED <<rightXml, rightTree, rightError, xpathSettings, isComparing, now,
                   listeners, workerInbox, storeInbox>>
    /\ UNCHANGED storeFrame

setRightXml ==
    /\ \E xml \in StoreTexts : rightXml' = xml
    /\ rightTree' = Null
    /\ rightError' = NullString
    /\ diffResults' = Null
    /\ UNCHANGED <<leftXml, leftTree, leftError, xpathSettings, isComparing, now,
                   listeners, workerInbox, storeInbox>>
    /\ UNCHANGED storeFrame

compare ==
    /\ Len(workerInbox) + Len(storeInbox) < MaxInFlight
    /\ IF leftXml = <<>> \/ rightXml = <<>>
       THEN UNCHANGED vars
       ELSE /\ isComparing' = TRUE
            /\ diffResults' = Null
            /\ listeners' = Append(listeners, now)
            /\ workerInbox' = Append(workerInbox,
                                     [type |-> "PARSE_AND_COMPARE", id |-> now,
                                      payload |-> [leftXml |-> leftXml,
                                                   rightXml |-> rightXml,
                                                   xpathSettings |-> xpathSettings]])
            /\ UNCHANGED <<leftXml, rightXml, xpathSettings, leftTree, rightTree,
                           leftError, rightError, now, storeInbox>>
            /\ UNCHANGED storeFrame

clear ==
    /\ leftXml' = <<>>
    /\ rightXml' = <<>>
    /\ leftTree' = Null
    /\ rightTree' = Null
    /\ leftError' = NullString
    /\ rightError' = NullString
    /\ diffResults' = Null
    /\ UNCHANGED <<xpathSettings, isComparing, now, listeners, workerInbox, storeInbox>>
    /\ UNCHANGED storeFrame

\* the clock Date.now() reads moving on
tick ==
    /\ now < MaxClock
    /\ now' = now + 1
    /\ UNCHANGED <<leftXml, rightXml, xpathSettings, leftTree, rightTree, diffResults,
                   leftError, rightError, isComparing, listeners, workerInbox, storeInbox>>
    /\ UNCHANGED storeFrame

\* the worker's event loop takes the next message posted to it
workerTakesMessage ==
    /\ workerInbox # <<>>
    /\ workerInbox' = Tail(workerInbox)

\* self.onmessage: the worker takes its next message and answers it
onmessage ==
    /\ workerTakesMessage
    /\ LET data == Head(workerInbox)
       IN  storeInbox' = Append(storeInbox,
                                IF data.type = "PARSE_AND_COMPARE"
                                THEN handleParseAndCompareMessage(data.payload, data.id,
                                                                  parserDiagnostic)
                                ELSE ErrorMessage(data.id, UnknownMessageType))
    /\ UNCHANGED <<leftXml, rightXml, xpathSettings, leftTree, rightTree, diffResults,
                   leftError, rightError, isComparing, now, listeners>>
    /\ UNCHANGED storeFrame

\* the worker's next answer is dispatched to every listener: those whose
\* request id it carries write the store and remove themselves
handleMessage ==
    /\ storeInbox # <<>>
    /\ LET data == Head(storeInbox)
           accepted == \E i \in 1..Len(listeners) : listeners[i] = data.id
           fields == IF accepted THEN installResponse(StoreFields, data) ELSE StoreFields
       IN  /\ leftTree' = fields.leftTree
           /\ rightTree' = fields.rightTree
           /\ diffResults' = fields.diffResults
           /\ leftError' = fields.leftError
           /\ rightError' = fields.rightError
           /\ isComparing' = fields.isComparing
           /\ listeners' = SelectSeq(listeners, LAMBDA id : id # data.id)
    /\ storeInbox' = Tail(storeInbox)
    /\ UNCHANGED <<leftXml, rightXml, xpathSettings, now, workerInbox>>
    /\ UNCHANGED storeFrame

NextStore ==
    \/ setLeftXml
    \/ setRightXml
    \/ compare
    \/ clear
    \/ tick
    \/ onmessage
    \/ handleMessage

SpecStore == InitStore /\ [][NextStore]_vars

\* the worker answers every request and the browser delivers every answer;
\* the steps that take a message off workerInbox are the onmessage steps
SpecStoreFair ==
    SpecStore /\ WF_workerInbox(workerTakesMessage) /\ WF_vars(handleMessage)

----------------------------------------------------------------------------
(* Properties of the worker and of the store                               *)

\* the outcome of parsing a text the way the worker does
WorkerParse(text, settings) == parseXmlInput(JsString(text), settings, parserDiagnostic)

\* `response` is the answer the worker owes to `request`
AnswersRequest(request, response) ==
    LET left == WorkerParse(request.payload.leftXml, request.payload.xpathSettings)
        right == WorkerParse(request.payload.rightXml, request.payload.xpathSettings)
        payload == response.payload
    IN  /\ response.type = "RESULT"
        /\ response.id = request.id
        /\ (payload.diffResults # Null) <=> (~left.threw /\ ~right.threw)
        /\ (~left.threw /\ ~right.threw) =>
               /\ payload.diffResults = compareXml(left.tree, right.tree)
               /\ payload.leftTree = left.tree
               /\ payload.rightTree = right.tree
               /\ payload.leftError = NullString
               /\ payload.rightError = NullString
        /\ left.threw =>
               /\ payload.leftError = left.message
               /\ payload.leftTree = Null
               /\ payload.rightTree = (IF right.threw THEN Null ELSE right.tree)
        /\ right.threw =>
               /\ payload.rightError = right.message
               /\ payload.rightTree = Null
               /\ payload.leftTree = (IF left.threw THEN Null ELSE left.tree)

\* C23: the worker's answer to a PARSE_AND_COMPARE request carries a non-null
\* diffResults exactly when both documents parsed, and then it is the
\* comparison of the two trees; when a parse failed it carries that side's
\* error, the other side's tree and diffResults = null.
WorkerComparesOnlyParsedPairs ==
    [][workerTakesMessage =>
           /\ Len(storeInbox') = Len(storeInbox) + 1
           /\ AnswersRequest(Head(workerInbox), storeInbox'[Len(storeInbox')])]_vars

\* an answer in flight that reports the right document's parse error next to
\* the left document's tree
WorkerComparesOnlyParsedPairsWitness ==
    \E i \in 1..Len(storeInbox) :
        /\ storeInbox[i].payload.rightError # NullString
        /\ storeInbox[i].payload.leftError = NullString
        /\ storeInbox[i].payload.leftTree # Null
        /\ storeInbox[i].payload.diffResults = Null

\* C29: whenever the store's diffResults is non-null it is the comparison of
\* the documents now in leftXml and rightXml, and a tree the store holds is
\* the tree of the document now on its side.
InstalledResultsAreCurrent ==
    LET left == WorkerParse(leftXml, xpathSettings)
        right == WorkerParse(rightXml, xpathSettings)
    IN  /\ diffResults # Null =>
               /\ ~left.threw
               /\ ~right.threw
               /\ diffResults = compareXml(left.tree, right.tree)
        /\ leftTree # Null => (~left.threw /\ leftTree = left.tree)
        /\ rightTree # Null => (~right.threw /\ rightTree = right.tree)

\* a listener is waiting for the answer the step delivers
AnswerAccepted ==
    /\ storeInbox # <<>>
    /\ storeInbox' = Tail(storeInbox)
    /\ \E i \in 1..Len(listeners) : listeners[i] = Head(storeInbox).id

\* C30: a compare() call with both documents non-empty sets isComparing; an
\* answer a listener accepts clears it, an ERROR answer as well as a RESULT
\* answer; under the fairness of SpecStoreFair isComparing always becomes
\* false again; and compare() with an empty document changes no state.
ComparingEventuallyEnds ==
    /\ [][(compare /\ leftXml # <<>> /\ rightXml # <<>>) => isComparing']_vars
    /\ [][(compare /\ (leftXml = <<>> \/ rightXml = <<>>)) => UNCHANGED vars]_vars
    /\ [][AnswerAccepted => ~isComparing']_vars
    /\ [](\A id \in 1..MaxClock :
              ~installResponse(StoreFields,
                               ErrorMessage(id, ComparisonFailedPrefix)).isComparing)
    /\ (isComparing ~> ~isComparing)

\* a comparison has ended: its report is in the store and nothing is pending
ComparingEventuallyEndsWitness ==
    /\ ~isComparing
    /\ diffResults # Null
    /\ listeners = <<>>

====
